---- MODULE Spec2Model ----
(***************************************************************************)
(* The receiver page of QR Transfer (src/app/page.tsx, HomePage): its      *)
(* React state, the session requests, the connection effect with its       *)
(* EventSource handlers and reconnect timers, and the refresh interval.    *)
(*                                                                         *)
(* A state setter takes effect at once; the re-run of the effects that a   *)
(* changed dependency causes is a step of its own (RunEffects), because    *)
(* React commits it after the handler that changed the state has returned. *)
(* The create-session and validate-session endpoints and the stream are    *)
(* outside the page: their answers and events are nondeterministic.        *)
(***************************************************************************)
EXTENDS Integers, Sequences, FiniteSets

\* ---- bounds of the model ------------------------------------------------
MaxSessions == 2      \* sessions the create-session endpoint mints
MaxItems == 2         \* content events the streams deliver
MaxTimers == 3        \* pending reconnect timers
MaxStale == 1         \* cleaned-up effect instances that still hold a timer or a stream
MaxCalls == 2         \* generateSession calls awaiting their response
MaxRefresh == 1       \* refreshSession calls awaiting their response
CapRetries == 6       \* cap of connectionRetries (the code has none)
BriefRetries == 1     \* the same cap where the session requests run too

\* ---- program constants --------------------------------------------------
Empty == 0            \* useState<string>("")
Undefined == -1       \* data.sessionId of a JSON body without that field
MaxRetries == 5       \* connectionRetries < 5
BaseDelay == 1000
MaxDelay == 30000

VARIABLES
  sessionId,          \* useState sessionId: Empty, Undefined or a minted id
  qrCodeUrl,          \* useState qrCodeUrl: Empty, Undefined or the code of a minted id
  receivedContent,    \* useState receivedContent: sequence of items, newest first
  isConnected,        \* useState isConnected
  isGenerating,       \* useState isGenerating
  connectionRetries,  \* useState connectionRetries
  mounted,            \* the mount effect has run
  effect,             \* the current instance of the connection effect (its closure)
  stale,              \* cleaned-up instances whose timers or streams are still alive
  creating,           \* generateSession calls awaiting the create-session response
  validating,         \* refreshSession calls awaiting the validation response
  minted,             \* session ids the endpoint has returned so far
  delivered,          \* content events delivered so far (arrival clock)
  op                  \* the handler that ran last

vars == <<sessionId, qrCodeUrl, receivedContent, isConnected, isGenerating,
          connectionRetries, mounted, effect, stale, creating, validating,
          minted, delivered, op>>

\* ---- pure helpers -------------------------------------------------------
RECURSIVE Pow2(_)
Pow2(n) == IF n = 0 THEN 1 ELSE 2 * Pow2(n - 1)

Min(a, b) == IF a < b THEN a ELSE b

\* const delay = Math.min(1000 * Math.pow(2, connectionRetries), 30000)
DelayLinear(k) == Min(BaseDelay * 2 * k, MaxDelay)
Delay(k) == Min(BaseDelay * Pow2(k), MaxDelay)

\* !sessionId
Falsy(s) == s \in {Empty, Undefined}

\* if (connectionRetries < 5), on the value the effect instance captured
MayRetryInclusive(k) == k <= MaxRetries
MayRetry(k) == k < MaxRetries

\* if (data.type === "content")
IsContentLoose(t) == t \in {"content", "heartbeat"}
IsContent(t) == t = "content"

\* setReceivedContent((prev) => [newItem, ...prev])
PrependAtTail(item, prev) == Append(prev, item)
Prepend(item, prev) == <<item>> \o prev

\* The handlers that call generateSession: the mount effect, the "New
\* Session" button, and refreshSession on a response that is not ok and in
\* its catch. The handlers are named as op names them.
GeneratesOnStreamError(handler) ==
  handler \in {"mount", "newSession", "refreshNotOk", "refreshThrow", "error"}
GeneratesOnValidSession(handler) ==
  handler \in {"mount", "newSession", "refreshNotOk", "refreshThrow", "refreshOk"}
GeneratesUnlessThrown(handler) ==
  handler \in {"mount", "newSession", "refreshNotOk"}
Generates(handler) ==
  handler \in {"mount", "newSession", "refreshNotOk", "refreshThrow"}

\* EventSource.readyState: CONNECTING is "connecting" before the first
\* answer and "retrying" after an error the browser recovers from by itself;
\* CLOSED ("closed") follows close() or an error the browser gives up on.
Alive(es) == es \in {"connecting", "open", "retrying"}

\* An effect instance: the sessionId and connectionRetries it captured, its
\* eventSource variable, and its pending timers (their delays, oldest first).
\* reconnectTimeout is the handle of the last timer scheduled, the last of
\* timers while that one is pending. old counts the timers, the first of
\* timers, that were scheduled before the current instance ran.
NoStream(s, k) == [sid |-> s, cr |-> k, es |-> "none", timers |-> <<>>, old |-> 0]

Front(s) == IF s = <<>> THEN <<>> ELSE SubSeq(s, 1, Len(s) - 1)

Init ==
  /\ sessionId = Empty
  /\ qrCodeUrl = Empty
  /\ receivedContent = <<>>
  /\ isConnected = FALSE
  /\ isGenerating = FALSE
  /\ connectionRetries = 0
  /\ mounted = FALSE
  /\ effect = NoStream(Empty, 0)
  /\ stale = <<>>
  /\ creating = 0
  /\ validating = 0
  /\ minted = 0
  /\ delivered = 0
  /\ op = "init"

\* ---- the session requests ------------------------------------------------

\* data.qrCode of the response that carries data.sessionId = s
QrCodeOfEarlierResponse(s) == IF s > 1 THEN 100 + s - 1 ELSE 100 + s
QrCode(s) == 100 + s

\* generateSession up to its first await: setIsGenerating(true); fetch(...)
StartGenerate ==
  /\ creating < MaxCalls
  /\ isGenerating' = TRUE
  /\ creating' = creating + 1

\* what a handler does about generateSession
MayGenerate(handler) ==
  IF Generates(handler) THEN StartGenerate ELSE UNCHANGED <<isGenerating, creating>>

\* useEffect(() => { generateSession() }, [])
Mount ==
  /\ ~mounted
  /\ mounted' = TRUE
  /\ MayGenerate("mount")
  /\ op' = "mount"
  /\ UNCHANGED <<sessionId, qrCodeUrl, receivedContent, isConnected,
                 connectionRetries, effect, stale, validating, minted, delivered>>

\* the "New Session" button: onClick={generateSession} disabled={isGenerating}
NewSession ==
  /\ mounted
  /\ ~isGenerating
  /\ MayGenerate("newSession")
  /\ op' = "newSession"
  /\ UNCHANGED <<sessionId, qrCodeUrl, receivedContent, isConnected,
                 connectionRetries, mounted, effect, stale, validating, minted,
                 delivered>>

\* generateSession after the await: the response is a body with sessionId and
\* qrCode ("ok"), a JSON body without them ("errjson": response.ok is not
\* looked at), or fetch or response.json() throws ("throw").
CreateResponse(outcome) ==
  /\ creating > 0
  /\ creating' = creating - 1
  /\ isGenerating' = FALSE
  /\ CASE outcome = "ok" ->
            /\ minted < MaxSessions
            /\ minted' = minted + 1
            /\ sessionId' = minted + 1
            /\ qrCodeUrl' = QrCode(minted + 1)
            /\ receivedContent' = <<>>
            /\ connectionRetries' = 0
            /\ op' = "createOk"
       [] outcome = "errjson" ->
            /\ sessionId' = Undefined
            /\ qrCodeUrl' = Undefined
            /\ receivedContent' = <<>>
            /\ connectionRetries' = 0
            /\ op' = "createErrJson"
            /\ UNCHANGED minted
       [] OTHER ->
            /\ op' = "createThrow"
            /\ UNCHANGED <<sessionId, qrCodeUrl, receivedContent,
                           connectionRetries, minted>>
  /\ UNCHANGED <<isConnected, mounted, effect, stale, validating, delivered>>

\* refreshSession up to its await, from the "Refresh" button (the sessionId of
\* the current render) or from the interval (the sessionId its effect captured)
RefreshBody(sid, label) ==
  /\ validating' = IF Falsy(sid) THEN validating ELSE validating + 1
  /\ op' = label
  /\ UNCHANGED <<sessionId, qrCodeUrl, receivedContent, isConnected, isGenerating,
                 connectionRetries, mounted, effect, stale, creating, minted,
                 delivered>>

RefreshClick ==
  /\ mounted
  /\ ~isGenerating
  /\ validating < MaxRefresh
  /\ RefreshBody(sessionId, "refreshClick")

\* setInterval(refreshSession, 30 * 60 * 1000), set up only if sessionId
RefreshInterval ==
  /\ mounted
  /\ ~Falsy(effect.sid)
  /\ validating < MaxRefresh
  /\ RefreshBody(effect.sid, "refreshInterval")

\* refreshSession after the await
ValidateResponse(outcome) ==
  /\ validating > 0
  /\ validating' = validating - 1
  /\ op' = CASE outcome = "ok" -> "refreshOk"
            [] outcome = "notok" -> "refreshNotOk"
            [] OTHER -> "refreshThrow"
  /\ MayGenerate(op')
  /\ UNCHANGED <<sessionId, qrCodeUrl, receivedContent, isConnected,
                 connectionRetries, mounted, effect, stale, minted, delivered>>

\* the "Clear" button, shown while receivedContent.length > 0
ClearReceivedContent ==
  /\ mounted
  /\ receivedContent # <<>>
  /\ receivedContent' = <<>>
  /\ op' = "clear"
  /\ UNCHANGED <<sessionId, qrCodeUrl, isConnected, isGenerating, connectionRetries,
                 mounted, effect, stale, creating, validating, minted, delivered>>

\* ---- the connection effect ----------------------------------------------

\* Slot 0 is the current effect instance, slot i > 0 the i-th stale one.
Slots == 0 .. Len(stale)

Closure(i) == IF i = 0 THEN effect ELSE stale[i]

\* nothing of the instance can run any more
Dead(c) == ~Alive(c.es) /\ c.timers = <<>>

Remove(s, i) == SubSeq(s, 1, i - 1) \o SubSeq(s, i + 1, Len(s))

\* The stale instances are a collection without order: the sequence keeps
\* them sorted, so that one collection is one state.
Rank(c) ==
  ((c.sid * 10 + c.cr) * 10 + c.old) * 100 + Len(c.timers) * 10
    + (CASE c.es = "connecting" -> 1 [] c.es = "open" -> 2
         [] c.es = "retrying" -> 3 [] OTHER -> 0)

RECURSIVE Insert(_, _)
Insert(c, q) ==
  IF q = <<>> THEN <<c>>
  ELSE IF Rank(c) <= Rank(Head(q)) THEN <<c>> \o q
  ELSE <<Head(q)>> \o Insert(c, Tail(q))

Put(i, c) ==
  IF i = 0
    THEN /\ effect' = c
         /\ stale' = stale
    ELSE /\ effect' = effect
         /\ stale' = IF Dead(c) THEN Remove(stale, i)
                                ELSE Insert(c, Remove(stale, i))

RECURSIVE SumTimers(_)
SumTimers(q) == IF q = <<>> THEN 0 ELSE Len(Head(q).timers) + SumTimers(Tail(q))

\* the reconnect timers pending in all instances
TotalTimers == Len(effect.timers) + SumTimers(stale)

\* connectToSession: if (eventSource) eventSource.close();
\* eventSource = new EventSource(`/api/listen/${sessionId}`)
ConnectToSession(c) == [c EXCEPT !.es = "connecting"]

\* the cleanup the effect returns: eventSource.close();
\* clearTimeout(reconnectTimeout), the last timer scheduled
Cleanup(c) ==
  [c EXCEPT !.es = IF c.es = "none" THEN "none" ELSE "closed",
            !.timers = Front(c.timers)]

\* every timer pending now was scheduled before the instance that runs next
Age(q) == [j \in 1 .. Len(q) |-> [q[j] EXCEPT !.old = Len(q[j].timers)]]

\* the effect body with the sessionId s and connectionRetries k of the render
RunEffect(s, k) ==
  IF Falsy(s) THEN NoStream(s, k) ELSE ConnectToSession(NoStream(s, k))

\* the dependencies [sessionId, connectionRetries] differ from those of the
\* last run
EffectsPending == <<sessionId, connectionRetries>> # <<effect.sid, effect.cr>>

\* React re-runs the effects whose dependencies changed: the cleanup of the
\* previous instance, then the body
RunEffects ==
  /\ mounted
  /\ EffectsPending
  /\ LET old == Cleanup(effect) IN
       /\ stale' = Age(IF Dead(old) THEN stale ELSE Insert(old, stale))
       /\ Len(stale') <= MaxStale
  /\ effect' = RunEffect(sessionId, connectionRetries)
  /\ op' = "effects"
  /\ UNCHANGED <<sessionId, qrCodeUrl, receivedContent, isConnected, isGenerating,
                 connectionRetries, mounted, creating, validating, minted,
                 delivered>>

\* Scheduling: React commits a re-render within the frame of the handler that
\* changed the state, while a stream's open and error events follow a network
\* round trip and a reconnect timer a delay of at least a second; so these
\* three wait for a pending RunEffects. A message of a stream that is open,
\* a response and a click can come at any moment.

\* eventSource.onopen
OnOpen(i) ==
  /\ ~EffectsPending
  /\ Closure(i).es \in {"connecting", "retrying"}
  /\ Put(i, [Closure(i) EXCEPT !.es = "open"])
  /\ isConnected' = TRUE
  /\ connectionRetries' = 0
  /\ op' = "open"
  /\ UNCHANGED <<sessionId, qrCodeUrl, receivedContent, isGenerating, mounted,
                 creating, validating, minted, delivered>>

\* eventSource.onmessage with data.type = type, data.contentType = kind
OnMessage(i, type, kind) ==
  /\ Closure(i).es = "open"
  /\ IF IsContent(type)
       THEN /\ delivered < MaxItems
            /\ delivered' = delivered + 1
            /\ receivedContent' =
                 Prepend([timestamp |-> delivered + 1, type |-> kind,
                          from |-> Closure(i).sid],
                         receivedContent)
       ELSE UNCHANGED <<delivered, receivedContent>>
  /\ op' = type
  /\ UNCHANGED <<sessionId, qrCodeUrl, isConnected, isGenerating, connectionRetries,
                 mounted, effect, stale, creating, validating, minted>>

\* eventSource.onerror; the browser either keeps reconnecting the stream by
\* itself (readyState CONNECTING) or has given it up (fatal, readyState CLOSED)
OnError(i, fatal) ==
  LET c == Closure(i) IN
  /\ ~EffectsPending
  /\ Alive(c.es)
  /\ fatal => c.es # "open"
  /\ isConnected' = FALSE
  /\ IF MayRetry(c.cr)
       THEN /\ TotalTimers < MaxTimers
            /\ Put(i, [c EXCEPT !.es = IF fatal THEN "closed" ELSE "retrying",
                                !.timers = Append(c.timers, Delay(c.cr))])
       ELSE Put(i, [c EXCEPT !.es = IF fatal THEN "closed" ELSE "retrying"])
  /\ op' = "error"
  /\ MayGenerate("error")
  /\ UNCHANGED <<sessionId, qrCodeUrl, receivedContent, connectionRetries, mounted,
                 validating, minted, delivered>>

\* setTimeout keeps time: a timer of the current instance does not fire
\* before a timer that was scheduled before the instance ran with a delay
\* that is not longer.
Due(i) ==
  i = 0 =>
    \A j \in 1 .. Len(stale) :
      stale[j].old > 0 => Head(stale[j].timers) > Head(effect.timers)

\* the reconnect timer's callback: setConnectionRetries((prev) => prev + 1);
\* connectToSession()
ReconnectTimer(i) ==
  LET c == Closure(i) IN
  /\ ~EffectsPending
  /\ c.timers # <<>>
  /\ Due(i)
  /\ connectionRetries < CapRetries
  /\ connectionRetries' = connectionRetries + 1
  /\ Put(i, ConnectToSession([c EXCEPT !.timers = Tail(c.timers),
                                       !.old = IF c.old > 0 THEN c.old - 1 ELSE 0]))
  /\ op' = "timer"
  /\ UNCHANGED <<sessionId, qrCodeUrl, receivedContent, isConnected, isGenerating,
                 mounted, creating, validating, minted, delivered>>

Next ==
  \/ Mount
  \/ NewSession
  \/ \E outcome \in {"ok", "errjson", "throw"} : CreateResponse(outcome)
  \/ RefreshClick
  \/ RefreshInterval
  \/ \E outcome \in {"ok", "notok", "throw"} : ValidateResponse(outcome)
  \/ ClearReceivedContent
  \/ RunEffects
  \/ \E i \in Slots : OnOpen(i)
  \/ \E i \in Slots, type \in {"content", "heartbeat", "other"},
        kind \in {"text", "link"} : OnMessage(i, type, kind)
  \/ \E i \in Slots, fatal \in BOOLEAN :
        Closure(i).timers = <<>> /\ OnError(i, fatal)
  \/ \E i \in Slots : connectionRetries < BriefRetries /\ ReconnectTimer(i)

\* The whole page. To keep it finite next to the session requests, a stream
\* error is followed here only while its instance has no timer pending, and
\* connectionRetries up to BriefRetries; SpecStream below follows repeated
\* errors, the timers they leave behind and every reconnect.
Spec == Init /\ [][Next]_vars

\* ---- one session and its stream, with every reconnect ---------------------

\* the page after Mount, CreateResponse("ok") and RunEffects
InitStream ==
  /\ sessionId = 1
  /\ qrCodeUrl = QrCode(1)
  /\ receivedContent = <<>>
  /\ isConnected = FALSE
  /\ isGenerating = FALSE
  /\ connectionRetries = 0
  /\ mounted = TRUE
  /\ effect = RunEffect(1, 0)
  /\ stale = <<>>
  /\ creating = 0
  /\ validating = 0
  /\ minted = 1
  /\ delivered = 0
  /\ op = "effects"

NextStream ==
  \/ RunEffects
  \/ \E i \in Slots : OnOpen(i)
  \/ \E i \in Slots, fatal \in BOOLEAN : OnError(i, fatal)
  \/ \E i \in Slots : ReconnectTimer(i)

SpecStream == InitStream /\ [][NextStream]_vars

\* ---- the claims ----------------------------------------------------------

\* the streams that are not closed, over all effect instances
OpenStreams == Cardinality({i \in Slots : Alive(Closure(i).es)})

\* the stream of the current instance has reported an error and the instance
\* captured connectionRetries = 5
Exhausted == effect.cr = MaxRetries /\ effect.es \in {"retrying", "closed"}

\* C1: for one session id, connectionRetries never exceeds 5 (at most 5
\* retries follow the initial attempt).
C1_RetriesNeverExceedFive == connectionRetries <= MaxRetries

\* C2, as claimed: once the stream has errored with connectionRetries = 5,
\* isConnected is false and stays false (here where no earlier instance is
\* left alive, so that only the page's current stream can act).
C2_StaysDisconnected ==
  [][(Exhausted /\ stale = <<>> /\ ~isConnected) => ~isConnected']_vars

\* C2, amended: once the stream has errored with connectionRetries = 5, its
\* effect instance holds and schedules no reconnect timer and creates no new
\* connection, and isConnected turns true only when a stream reports open.
C2_ExhaustedInstanceStops ==
  [][Exhausted =>
       /\ effect.timers = <<>>
       /\ (effect'.sid = effect.sid /\ effect'.cr = effect.cr) =>
            (effect'.timers = <<>> /\ effect'.es # "connecting")
       /\ (isConnected' /\ ~isConnected) => op' = "open"]_vars

C2_Witness ==
  /\ Exhausted
  /\ op = "error"
  /\ ~isConnected
  /\ stale = <<>>
  /\ connectionRetries = MaxRetries

\* C3, as claimed: a stream error invokes generateSession.
C3_StreamErrorReplacesSession ==
  [][op' = "error" => creating' = creating + 1]_vars

\* C3, amended: a stream error never invokes generateSession and never
\* changes sessionId or qrCodeUrl; it sets isConnected false and leaves the
\* instance on the sessionId it captured.
C3_StreamErrorKeepsSession ==
  [][op' = "error" =>
       /\ UNCHANGED <<sessionId, qrCodeUrl, creating, isGenerating>>
       /\ ~isConnected'
       /\ effect'.sid = effect.sid]_vars

C3_Witness ==
  /\ op = "error"
  /\ effect.es = "closed"
  /\ effect.sid = sessionId
  /\ ~Falsy(sessionId)
  /\ creating = 0
  /\ ~isGenerating

\* C4: refreshSession with a non-empty sessionId makes the validation
\* request, and a response that is not ok or a thrown request invokes
\* generateSession; with an empty sessionId it makes no request and changes
\* no state.
C4_RefreshFailureGenerates ==
  [][/\ op' \in {"refreshNotOk", "refreshThrow"} =>
          (creating' = creating + 1 /\ isGenerating')
     /\ (op' = "refreshClick" /\ ~Falsy(sessionId)) => validating' = validating + 1
     /\ (op' = "refreshClick" /\ Falsy(sessionId)) =>
          UNCHANGED <<sessionId, qrCodeUrl, receivedContent, isConnected,
                      isGenerating, connectionRetries, effect, stale, creating,
                      validating, minted, delivered>>]_vars

C4_Witness ==
  /\ op = "refreshThrow"
  /\ ~Falsy(sessionId)
  /\ isGenerating
  /\ creating = 1

\* C5: at every instant the page holds at most one stream connection that is
\* not closed.
C5_AtMostOneStream == OpenStreams <= 1

\* C6: a content event adds exactly one item at the head of receivedContent
\* and leaves the earlier items as they were, so the list is newest first.
C6_ContentPrepended ==
  [][op' = "content" =>
       /\ Len(receivedContent') = Len(receivedContent) + 1
       /\ Tail(receivedContent') = receivedContent
       /\ \A j \in 1 .. Len(receivedContent) :
            Head(receivedContent').timestamp > receivedContent[j].timestamp]_vars

C6_Witness ==
  /\ op = "content"
  /\ Len(receivedContent) = 2
  /\ receivedContent[1].timestamp = 2
  /\ receivedContent[2].timestamp = 1

\* C7: a reconnect scheduled at connectionRetries = k waits 1000, 2000, 4000,
\* 8000, 16000 ms for k = 0..4, and none is scheduled for k >= 5.
ClaimedDelay(k) ==
  CASE k = 0 -> 1000 [] k = 1 -> 2000 [] k = 2 -> 4000 [] k = 3 -> 8000
    [] k = 4 -> 16000 [] OTHER -> 0

C7_BackoffDelays ==
  \A i \in Slots : \A j \in 1 .. Len(Closure(i).timers) :
    /\ Closure(i).cr \in 0 .. 4
    /\ Closure(i).timers[j] = ClaimedDelay(Closure(i).cr)
    /\ Closure(i).timers[j] <= MaxDelay

C7_Witness ==
  /\ op = "error"
  /\ effect.cr = 4
  /\ effect.timers = <<16000>>
  /\ connectionRetries = 4

\* C8: a refresh that the server answers ok changes nothing on the client and
\* opens no connection.
C8_ValidRefreshChangesNothing ==
  [][op' = "refreshOk" =>
       UNCHANGED <<sessionId, qrCodeUrl, receivedContent, connectionRetries,
                   isConnected, isGenerating, creating, effect, stale, minted>>]_vars

C8_Witness ==
  /\ op = "refreshOk"
  /\ ~Falsy(sessionId)
  /\ effect.es = "open"
  /\ receivedContent # <<>>

\* C9: a heartbeat, or any event whose type is not "content", leaves
\* receivedContent, isConnected, connectionRetries and sessionId unchanged.
C9_HeartbeatChangesNothing ==
  [][op' \in {"heartbeat", "other"} =>
       UNCHANGED <<receivedContent, isConnected, connectionRetries, sessionId,
                   delivered>>]_vars

C9_Witness ==
  /\ op = "heartbeat"
  /\ isConnected
  /\ Len(receivedContent) = 1

\* C10: whenever isConnected is true, the page's current stream connection is
\* open and is the one for the current sessionId (looked at once the effects
\* of the last state change have run).
C10_ConnectedMeansOpen ==
  (isConnected /\ ~EffectsPending) =>
    (effect.es = "open" /\ effect.sid = sessionId)

\* C11: once a generateSession has succeeded, receivedContent holds only
\* items delivered on the stream of the current sessionId.
C11_OnlyCurrentSessionItems ==
  ~Falsy(sessionId) =>
    \A j \in 1 .. Len(receivedContent) : receivedContent[j].from = sessionId

\* C12: after the cleanup of an effect instance has run, no reconnect timer
\* scheduled by that instance is pending and its stream is closed.
C12_CleanupLeavesNothingPending ==
  \A j \in 1 .. Len(stale) : stale[j].timers = <<>> /\ ~Alive(stale[j].es)

\* C13: a create-session request that fails leaves sessionId, qrCodeUrl,
\* receivedContent and connectionRetries as they were: the existing session
\* and its items are kept.
C13_FailedCreateKeepsSession ==
  [][(op' \in {"createThrow", "createErrJson"} /\ ~Falsy(sessionId)) =>
       UNCHANGED <<sessionId, qrCodeUrl, receivedContent, connectionRetries>>]_vars

\* C14: sessionId and qrCodeUrl always come from one create-session
\* response: both empty, or the pair one response carried (a body without
\* the two fields leaves both undefined). The ids name the responses in the
\* order they arrive, so every order of arrival is covered. SessionOfCode
\* reads the session id a code was issued for.
SessionOfCode(qr) == qr - 100

C14_SessionAndQrFromOneResponse ==
  \/ sessionId = Empty /\ qrCodeUrl = Empty
  \/ sessionId = Undefined /\ qrCodeUrl = Undefined
  \/ sessionId \in 1 .. minted /\ SessionOfCode(qrCodeUrl) = sessionId

\* a second response arrives while another generateSession call is pending
C14_Witness ==
  /\ op = "createOk"
  /\ sessionId = 2
  /\ qrCodeUrl = 102
  /\ creating = 1

\* C15: isGenerating is true exactly while a generateSession call awaits its
\* response.
C15_GeneratingWhileInFlight == isGenerating <=> creating > 0

====
